---- MODULE Spec2Model ----
(***************************************************************************)
(* Persistent fields of the replication connection record.                 *)
(*                                                                         *)
(* Two generations of the same code live in the tree and both are          *)
(* modelled:                                                               *)
(*   MI_*  the header-only MasterInfoFile / InfoFile fields                *)
(*         (sql/rpl_info_file.hh, sql/rpl_master_info_file.hh)             *)
(*   CM_*  the ChangeMaster configs and the key=value section codec        *)
(*         (sql/rpl/change_master.hh, sql/rpl/change_master.cc)            *)
(*                                                                         *)
(* An IO_CACHE is a record [data, pos]: the bytes of the file and the      *)
(* number of bytes already read.  Bytes are their ASCII codes, so that     *)
(* the comparisons and the arithmetic of the parsers are the code's.       *)
(***************************************************************************)
EXTENDS Integers, Sequences, FiniteSets, TLC

(***************************************************************************)
(* Bytes                                                                   *)
(***************************************************************************)
LowerCase == <<"a","b","c","d","e","f","g","h","i","j","k","l","m",
               "n","o","p","q","r","s","t","u","v","w","x","y","z">>
UpperCase == <<"A","B","C","D","E","F","G","H","I","J","K","L","M",
               "N","O","P","Q","R","S","T","U","V","W","X","Y","Z">>
DigitChar == <<"0","1","2","3","4","5","6","7","8","9">>

\* x bound to a value that is used more than once
Bind(x, F(_)) == F(x)

\* the least element of a non-empty set of numbers
Min(S) == CHOOSE i \in S : \A j \in S : i <= j

IndexIn(seq, c) == CHOOSE i \in DOMAIN seq : seq[i] = c
InSeq(seq, c) == \E i \in DOMAIN seq : seq[i] = c

\* the ASCII code of a character written as a one-character string
Ord(c) ==
  IF InSeq(LowerCase, c) THEN 96 + IndexIn(LowerCase, c)
  ELSE IF InSeq(UpperCase, c) THEN 64 + IndexIn(UpperCase, c)
  ELSE IF InSeq(DigitChar, c) THEN 47 + IndexIn(DigitChar, c)
  ELSE CASE c = "\n" -> 10
         [] c = " "  -> 32
         [] c = "-"  -> 45
         [] c = "."  -> 46
         [] c = "/"  -> 47
         [] c = "="  -> 61
         [] c = "_"  -> 95
         [] c = "+"  -> 43
         [] c = "NUL" -> 0

\* the bytes of a text written as a tuple of one-character strings
B(chars) == [i \in DOMAIN chars |-> Ord(chars[i])]

NL == Ord("\n")
Ch0 == Ord("0")
Ch9 == Ord("9")
IsDigit(c) == c >= Ch0 /\ c <= Ch9

(***************************************************************************)
(* IO_CACHE: sequential read and write                                     *)
(***************************************************************************)
\* my_sys.h: the value my_b_get() returns at the end of the stream, INT_MIN
my_b_EOF == (0 - 2147483647) - 1

NewFile(bytes) == [data |-> bytes, pos |-> 0]
Unread(file) == SubSeq(file.data, file.pos + 1, Len(file.data))
AtEOF(file) == file.pos >= Len(file.data)

\* my_b_get(file): one byte, or my_b_EOF
my_b_get(file) ==
  IF AtEOF(file)
  THEN [c |-> my_b_EOF, file |-> file]
  ELSE [c |-> file.data[file.pos + 1], file |-> [file EXCEPT !.pos = @ + 1]]

\* my_b_write / my_b_write_byte
my_b_write(file, bytes) == [file EXCEPT !.data = @ \o bytes]

\* index of the first newline among the first n unread bytes, 0 when none
FirstNL(bytes, n) ==
  Bind({i \in 1..n : i <= Len(bytes) /\ bytes[i] = NL}, LAMBDA hits :
    IF hits = {} THEN 0 ELSE Min(hits))

\* my_b_gets(file, buf, max_length): reads at most max_length - 1 bytes and
\* stops after a newline, which it stores; returns the number of bytes
\* stored, or 0 when the stream ends before either limit is met.
my_b_gets(file, max_length) ==
  Bind(Unread(file), LAMBDA rest :
    Bind(FirstNL(rest, max_length - 1), LAMBDA nl :
      Bind(IF nl > 0 THEN nl
           ELSE IF Len(rest) >= max_length - 1 THEN max_length - 1
           ELSE 0, LAMBDA take :
        IF take = 0
        THEN [size |-> 0, buf |-> <<>>,
              file |-> [file EXCEPT !.pos = Len(file.data)]]
        ELSE [size |-> take, buf |-> SubSeq(rest, 1, take),
              file |-> [file EXCEPT !.pos = @ + take]])))

(***************************************************************************)
(* <charconv>                                                              *)
(***************************************************************************)
RECURSIVE DigitsValue(_)
DigitsValue(ds) ==
  IF ds = <<>> THEN 0
  ELSE 10 * DigitsValue(SubSeq(ds, 1, Len(ds) - 1)) + (ds[Len(ds)] - Ch0)

\* length of the longest prefix of bytes[from..] made of decimal digits
DigitRun(bytes, from) ==
  Bind({i \in from..Len(bytes) : ~IsDigit(bytes[i])}, LAMBDA stops :
    (IF stops = {} THEN Len(bytes) + 1 ELSE Min(stops)) - from)

\* the digits without their leading zeros
StripZeros(ds) ==
  Bind({i \in DOMAIN ds : ds[i] # Ch0}, LAMBDA nz :
    IF nz = {} THEN <<>> ELSE SubSeq(ds, Min(nz), Len(ds)))

\* a <= b for two digit strings without leading zeros
DigitsLE(a, b) ==
  \/ Len(a) < Len(b)
  \/ /\ Len(a) = Len(b)
     /\ \/ a = b
        \/ \E i \in DOMAIN a :
             /\ a[i] < b[i]
             /\ \A j \in 1..(i - 1) : a[j] = b[j]

\* std::numeric_limits<I>: largest magnitudes, as decimal digits, and
\* digits10, for the integer types of the fields
UINT8  == [signed |-> FALSE, digits10 |-> 2,
           max |-> B(<<"2","5","5">>), min |-> <<>>]
INT32  == [signed |-> TRUE, digits10 |-> 9,
           max |-> B(<<"2","1","4","7","4","8","3","6","4","7">>),
           min |-> B(<<"2","1","4","7","4","8","3","6","4","8">>)]
UINT32 == [signed |-> FALSE, digits10 |-> 9,
           max |-> B(<<"4","2","9","4","9","6","7","2","9","5">>),
           min |-> <<>>]
UINT64 == [signed |-> FALSE, digits10 |-> 19,
           max |-> B(<<"1","8","4","4","6","7","4","4","0","7","3","7","0",
                       "9","5","5","1","6","1","5">>),
           min |-> <<>>]

\* std::from_chars(first, last, value) for the integer type I: an optional
\* '-' (signed types only), then the longest run of digits; what follows
\* the digits is not looked at.  ok is (ec == std::errc()).  The range is
\* decided on the digits, so that no out-of-range text is ever converted.
std_from_chars(bytes, I) ==
  Bind(I.signed /\ Len(bytes) >= 1 /\ bytes[1] = Ord("-"), LAMBDA neg :
    Bind(IF neg THEN 2 ELSE 1, LAMBDA from :
      Bind(DigitRun(bytes, from), LAMBDA n :
        Bind(StripZeros(SubSeq(bytes, from, from + n - 1)), LAMBDA ds :
          IF n = 0 \/ ~DigitsLE(ds, IF neg THEN I.min ELSE I.max)
          THEN [ok |-> FALSE, value |-> 0]
          ELSE [ok |-> TRUE,
                value |-> IF neg THEN 0 - DigitsValue(ds)
                          ELSE DigitsValue(ds)]))))

RECURSIVE DecimalDigits(_)
\* std::to_chars of a non-negative value: the minimal decimal digits
DecimalDigits(v) ==
  IF v < 10 THEN <<Ch0 + v>>
  ELSE DecimalDigits(v \div 10) \o <<Ch0 + (v % 10)>>

std_to_chars(v) ==
  IF v < 0 THEN <<Ord("-")>> \o DecimalDigits(0 - v) ELSE DecimalDigits(v)

(***************************************************************************)
(* IntIOCache (rpl_info_file.hh) and the helpers of change_master.cc       *)
(***************************************************************************)
\* BUF_SIZE<I> / int_buf_size<I>: digits10 + 2
BUF_SIZE(I) == I.digits10 + 2

\* IntIOCache::from_chars(IO_CACHE *, I &): one line of at most
\* BUF_SIZE<I> + 1 bytes.  ret is TRUE on error, as in the code.
IntIOCache_from_chars(file, I) ==
  Bind(my_b_gets(file, BUF_SIZE(I) + 2), LAMBDA g :
    Bind(std_from_chars(g.buf, I), LAMBDA r :
      [ret |-> (g.size = 0 \/ ~r.ok), value |-> r.value, file |-> g.file]))

\* from_chars(IO_CACHE *, I &) of change_master.cc: at most int_buf_size<I>
\* bytes
CM_from_chars(file, I) ==
  Bind(my_b_gets(file, BUF_SIZE(I) + 1), LAMBDA g :
    Bind(std_from_chars(g.buf, I), LAMBDA r :
      [ret |-> (g.size = 0 \/ ~r.ok), value |-> r.value, file |-> g.file]))

\* IntIOCache::to_chars: exactly the digits std::to_chars produced
IntIOCache_to_chars(file, v) == my_b_write(file, std_to_chars(v))

\* to_chars of change_master.cc: always int_buf_size<I> bytes of the
\* buffer; the bytes after the digits were never written and hold
\* whatever the stack held, here `fill`
CM_to_chars(file, v, I, fill) ==
  Bind(std_to_chars(v), LAMBDA ds :
    my_b_write(file,
      [i \in 1..BUF_SIZE(I) |-> IF i <= Len(ds) THEN ds[i] ELSE fill]))

(***************************************************************************)
(* C strings in fixed buffers.  A buffer is known up to its terminator,    *)
(* and at least in its first two bytes (the DEFAULT mark of the paths).    *)
(***************************************************************************)
\* my_global.h
FN_REFLEN == 512

\* the string a buffer holds: the bytes before the first NUL
CStr(buf) ==
  Bind({i \in DOMAIN buf : buf[i] = 0}, LAMBDA z :
    IF z = {} THEN buf ELSE SubSeq(buf, 1, Min(z) - 1))

\* (const char *) nullptr: no C string, and equal to none
nullptr == <<-1>>

\* strmake_buf(buf, src): at most N - 1 bytes and a terminator; the byte at
\* offset 1 is kept when the copy does not reach it
strmake_buf(buf, src, N) ==
  Bind(SubSeq(src, 1, IF Len(src) < N - 1 THEN Len(src) ELSE N - 1), LAMBDA s :
    IF s = <<>> THEN <<0, buf[2]>> ELSE s \o <<0>>)

\* init_strvar_from_file(var, max_size, f, nullptr) of slave.cc: one line
\* without its newline; a longer line is cut and its rest skipped up to
\* and including the newline.  ret is TRUE when nothing could be read.
init_strvar_from_file(buf, max_size, file) ==
  Bind(my_b_gets(file, max_size), LAMBDA g :
    IF g.size = 0 THEN [ret |-> TRUE, buf |-> buf, file |-> g.file]
    ELSE IF g.buf[g.size] = NL
    THEN [ret |-> FALSE, file |-> g.file,
          buf |-> IF g.size = 1 THEN <<0, 0>>
                  ELSE SubSeq(g.buf, 1, g.size - 1) \o <<0>>]
    ELSE Bind(Unread(g.file), LAMBDA rest :
      Bind(FirstNL(rest, Len(rest)), LAMBDA nl :
        [ret |-> FALSE, buf |-> g.buf \o <<0>>,
         file |-> [g.file EXCEPT
                     !.pos = @ + (IF nl > 0 THEN nl ELSE Len(rest))]])))

(***************************************************************************)
(* mariadbd options: the process-wide fallbacks of the DEFAULT-able        *)
(* fields.  An options record o holds                                      *)
(*   master_connect_retry  uint32_t                                        *)
(*   master_ssl            bool                                            *)
(*   master_ssl_ca         const char * (the bytes of the string)          *)
(*   master_use_gtid       the enum, DEFAULT included                      *)
(*   master_heartbeat_period  milliseconds, or HB_UNSET                    *)
(*   slave_net_timeout     seconds                                         *)
(***************************************************************************)

(***************************************************************************)
(* MasterInfoFile fields (rpl_master_info_file.hh)                         *)
(***************************************************************************)
\* enum struct enum_master_use_gtid { NO, CURRENT_POS, SLAVE_POS, DEFAULT }
MI_NO == 0
MI_CURRENT_POS == 1
MI_SLAVE_POS == 2
MI_DEFAULT == 3

\* enum { NO, YES, DEFAULT= -1 } of the trilean fields (both generations)
TRIL_NO == 0
TRIL_YES == 1
TRIL_DEFAULT == -1

\* slave.h: SLAVE_MAX_HEARTBEAT_PERIOD, in seconds
SLAVE_MAX_HEARTBEAT_PERIOD == 4294967

\* uint32_t master_connect_retry= 60
master_connect_retry_init == 60

\* ---- OptionalField<T>: std::optional<T> optional ----
\* A disengaged optional keeps no value: value is 0 then.
Nullopt == [has_value |-> FALSE, value |-> 0]

MI_OptionalField_is_default(f) == f.has_value

MI_OptionalField_set_default(f) == [f |-> Nullopt, ret |-> FALSE]

MI_OptionalField_assign(f, v) == [has_value |-> TRUE, value |-> v]

\* ---- OptionalIntField<mariadbd_option> ----
\* a conversion that substitutes the value the option was declared with
\* instead of the value it holds
MI_OptionalIntField_value_snapshot(f, option) ==
  IF f.has_value THEN f.value ELSE master_connect_retry_init

\* operator IntType(): optional.value_or(mariadbd_option)
MI_OptionalIntField_value(f, option) ==
  IF f.has_value THEN f.value ELSE option

MI_OptionalIntField_load_from(f, file, I) ==
  Bind(IntIOCache_from_chars(file, I), LAMBDA r :
    [ret |-> r.ret, file |-> r.file,
     f |-> IF r.ret THEN f ELSE MI_OptionalField_assign(f, r.value)])

MI_OptionalIntField_save_to(f, option, file) ==
  IntIOCache_to_chars(file, MI_OptionalIntField_value(f, option))

\* ---- OptionalPathField<mariadbd_option> : StringField<> ----
MI_OptionalPathField_is_default(f) == f.buf[1] = 0 /\ f.buf[2] # 0

MI_OptionalPathField_value(f, option) ==
  IF MI_OptionalPathField_is_default(f) THEN option ELSE CStr(f.buf)

MI_OptionalPathField_assign(f, other) ==
  [buf |-> strmake_buf([f.buf EXCEPT ![2] = 0], other, FN_REFLEN)]

MI_OptionalPathField_set_default(f) ==
  [f |-> [buf |-> <<0, 1>>], ret |-> FALSE]

MI_OptionalPathField_load_from(f, file) ==
  Bind(init_strvar_from_file([f.buf EXCEPT ![2] = 0], FN_REFLEN, file),
    LAMBDA r : [ret |-> r.ret, file |-> r.file, f |-> [buf |-> r.buf]])

MI_OptionalPathField_save_to(f, option, file) ==
  my_b_write(file, MI_OptionalPathField_value(f, option))

\* ---- OptionalBoolField<mariadbd_option> ----
MI_OptionalBoolField_is_default(f) == f.value <= TRIL_DEFAULT

MI_OptionalBoolField_value(f, option) ==
  IF MI_OptionalBoolField_is_default(f) THEN option ELSE f.value # TRIL_NO

MI_OptionalBoolField_set_default(f) ==
  [f |-> [value |-> TRIL_DEFAULT], ret |-> FALSE]

MI_OptionalBoolField_assign(f, b) ==
  [value |-> IF b THEN TRIL_YES ELSE TRIL_NO]

MI_OptionalBoolField_load_from(f, file) ==
  Bind(my_b_gets(file, 3), LAMBDA g :
    IF g.size > 0 /\ g.buf[1] = Ord("0")
      THEN [ret |-> FALSE, file |-> g.file, f |-> [value |-> TRIL_NO]]
    ELSE IF g.size > 0 /\ g.buf[1] = Ord("1")
      THEN [ret |-> FALSE, file |-> g.file, f |-> [value |-> TRIL_YES]]
    ELSE [ret |-> TRUE, file |-> g.file, f |-> f])

MI_OptionalBoolField_save_to(f, option, file) ==
  my_b_write(file,
    <<IF MI_OptionalBoolField_value(f, option) THEN Ord("1") ELSE Ord("0")>>)

\* ---- master_use_gtid ----
MI_master_use_gtid_is_default(f) == f.mode <= MI_DEFAULT

\* a conversion that never consults gtid_supported
MI_master_use_gtid_value_unlayered(f, option) ==
  IF MI_master_use_gtid_is_default(f)
  THEN IF option >= MI_DEFAULT THEN MI_SLAVE_POS ELSE option
  ELSE f.mode

MI_master_use_gtid_value(f, option) ==
  IF MI_master_use_gtid_is_default(f)
  THEN IF option >= MI_DEFAULT
       THEN (IF f.gtid_supported THEN MI_SLAVE_POS ELSE MI_NO)
       ELSE option
  ELSE f.mode

MI_master_use_gtid_assign(f, mode) == [f EXCEPT !.mode = mode]

MI_master_use_gtid_set_default(f) ==
  [f |-> [f EXCEPT !.mode = MI_DEFAULT], ret |-> FALSE]

MI_master_use_gtid_load_from(f, file) ==
  Bind(my_b_gets(file, 2), LAMBDA g :
    IF g.size = 0 \/ g.buf[1] > Ord("2") \/ g.buf[1] < Ord("0")
    THEN [ret |-> TRUE, file |-> g.file, f |-> f]
    ELSE [ret |-> FALSE, file |-> g.file,
          f |-> MI_master_use_gtid_assign(f, g.buf[1] - Ord("0"))])

MI_master_use_gtid_save_to(f, option, file) ==
  my_b_write(file, <<Ord("0") + MI_master_use_gtid_value(f, option)>>)

\* ---- master_heartbeat_period : OptionalField<uint32_t>, milliseconds ----
\* std::from_chars(first, last, double &, std::chars_format::fixed): an
\* optional '-', digits, an optional '.' and digits, at least one digit in
\* all; no exponent.  int and frac are the digits on either side of the
\* point.
std_from_chars_fixed(bytes) ==
  Bind(Len(bytes) >= 1 /\ bytes[1] = Ord("-"), LAMBDA neg :
    Bind(IF neg THEN 2 ELSE 1, LAMBDA from :
      Bind(DigitRun(bytes, from), LAMBDA n :
        Bind(Len(bytes) >= from + n /\ bytes[from + n] = Ord("."), LAMBDA dot :
          Bind(IF dot THEN DigitRun(bytes, from + n + 1) ELSE 0, LAMBDA m :
            [ok   |-> n + m > 0,
             len  |-> (from - 1) + n + (IF dot THEN 1 + m ELSE 0),
             neg  |-> neg,
             int  |-> StripZeros(SubSeq(bytes, from, from + n - 1)),
             frac |-> IF dot THEN SubSeq(bytes, from + n + 1, from + n + m)
                      ELSE <<>>])))))

\* the option: std::optional<uint32_t> ::master_heartbeat_period and
\* slave_net_timeout
MI_master_heartbeat_period_value(f, option, ub) ==
  IF MI_OptionalField_is_default(f)
  THEN (IF option.period.has_value THEN option.period.value
        ELSE option.slave_net_timeout * 500)
  ELSE (IF f.has_value THEN f.value ELSE ub)

MI_master_heartbeat_period_load_from(f, file) ==
  Bind(my_b_gets(file, BUF_SIZE(UINT32) + 3), LAMBDA g :
    Bind(std_from_chars_fixed(g.buf), LAMBDA d :
      Bind(d.int = <<>> /\ StripZeros(d.frac) = <<>>, LAMBDA zero :
        Bind(DecimalDigits(SLAVE_MAX_HEARTBEAT_PERIOD), LAMBDA maxd :
          IF \/ g.size = 0
             \/ ~d.ok
             \/ d.neg /\ ~zero                       \* seconds < 0
             \/ ~d.neg /\ ~DigitsLE(d.int, maxd)     \* seconds > the maximum
             \/ ~d.neg /\ d.int = maxd /\ StripZeros(d.frac) # <<>>
          THEN [ret |-> TRUE, file |-> g.file, f |-> f]
          ELSE [ret |-> FALSE, file |-> g.file,
                f |-> MI_OptionalField_assign(f,
                        DigitsValue(d.int) \div 1000)]))))

\* the save without the zeroes that pad a count of fewer than four digits
MI_master_heartbeat_period_save_to_unpadded(f, option, ub, file) ==
  Bind(std_to_chars(MI_master_heartbeat_period_value(f, option, ub)),
    LAMBDA ds :
      IF Len(ds) > 3
      THEN my_b_write(file, SubSeq(ds, 1, Len(ds) - 3) \o <<Ord(".")>>
                            \o SubSeq(ds, Len(ds) - 2, Len(ds)))
      ELSE my_b_write(file, <<Ord("0"), Ord(".")>> \o ds))

MI_master_heartbeat_period_save_to(f, option, ub, file) ==
  Bind(std_to_chars(MI_master_heartbeat_period_value(f, option, ub)),
    LAMBDA ds :
      IF Len(ds) > 3
      THEN my_b_write(file, SubSeq(ds, 1, Len(ds) - 3) \o <<Ord(".")>>
                            \o SubSeq(ds, Len(ds) - 2, Len(ds)))
      ELSE my_b_write(file, <<Ord("0"), Ord(".")>>
                            \o [i \in 1..(3 - Len(ds)) |-> Ord("0")] \o ds))

(***************************************************************************)
(* ChangeMaster configs (rpl/change_master.hh, rpl/change_master.cc)       *)
(***************************************************************************)
\* enum struct enum_master_use_gtid { NO, CURRENT_POS, SLAVE_POS, DEFAULT= -1 }
CM_NO == 0
CM_CURRENT_POS == 1
CM_SLAVE_POS == 2
CM_DEFAULT == -1

\* Persistent: the base class's own methods
Persistent_is_default(f) == FALSE
Persistent_set_default(f) == [f |-> f, ret |-> TRUE]

\* ---- OptionalIntConfig<mariadbd_option> ----
CM_OptionalIntConfig_is_default(f) == f.has_value

CM_OptionalIntConfig_set_default(f) == [f |-> Nullopt, ret |-> FALSE]

CM_OptionalIntConfig_assign(f, v) == [has_value |-> TRUE, value |-> v]

CM_OptionalIntConfig_value(f, option) ==
  IF f.has_value THEN f.value ELSE option

CM_OptionalIntConfig_load_from(f, file, I) ==
  Bind(CM_from_chars(file, I), LAMBDA r :
    [ret |-> r.ret, file |-> r.file,
     f |-> IF r.ret THEN f ELSE CM_OptionalIntConfig_assign(f, r.value)])

CM_OptionalIntConfig_save_to(f, option, file, I, fill) ==
  CM_to_chars(file, CM_OptionalIntConfig_value(f, option), I, fill)

\* ---- OptionalBoolConfig<mariadbd_option> ----
CM_OptionalBoolConfig_is_default(f) == f.value <= TRIL_DEFAULT

CM_OptionalBoolConfig_value(f, option) ==
  IF CM_OptionalBoolConfig_is_default(f) THEN option ELSE f.value # TRIL_NO

CM_OptionalBoolConfig_set_default(f) ==
  [f |-> [value |-> TRIL_DEFAULT], ret |-> FALSE]

\* operator=(bool): static_cast<tril>(value)
CM_OptionalBoolConfig_assign(f, b) ==
  [value |-> IF b THEN TRIL_YES ELSE TRIL_NO]

\* from_chars<unsigned char>(file, *this): the number read is converted to
\* bool by the assignment
CM_OptionalBoolConfig_load_from(f, file) ==
  Bind(CM_from_chars(file, UINT8), LAMBDA r :
    [ret |-> r.ret, file |-> r.file,
     f |-> IF r.ret THEN f
           ELSE CM_OptionalBoolConfig_assign(f, r.value # 0)])

CM_OptionalBoolConfig_save_to(f, option, file, fill) ==
  CM_to_chars(file,
    IF CM_OptionalBoolConfig_value(f, option) THEN 1 ELSE 0, UINT8, fill)

\* ---- OptionalPathConfig<mariadbd_option> ----
CM_OptionalPathConfig_is_default(f) == f.buf[1] = 0 /\ f.buf[2] # 0

\* operator const char *: the buffer itself, DEFAULT or not
CM_OptionalPathConfig_value(f, option) == CStr(f.buf)

CM_OptionalPathConfig_assign(f, other) ==
  IF other # nullptr
  THEN [buf |-> strmake_buf([f.buf EXCEPT ![2] = 0], other, FN_REFLEN)]
  ELSE f

CM_OptionalPathConfig_set_default(f) ==
  [f |-> [buf |-> <<0, 1>>], ret |-> FALSE]

CM_OptionalPathConfig_load_from(f, file) ==
  Bind(init_strvar_from_file([f.buf EXCEPT ![2] = 0], FN_REFLEN, file),
    LAMBDA r : [ret |-> r.ret, file |-> r.file, f |-> [buf |-> r.buf]])

CM_OptionalPathConfig_save_to(f, option, file) ==
  my_b_write(file, CM_OptionalPathConfig_value(f, option))

\* ---- master_use_gtid_t ----
CM_master_use_gtid_t_is_default(f) == f.mode <= CM_DEFAULT

CM_master_use_gtid_t_value(f, option) ==
  IF CM_master_use_gtid_t_is_default(f)
  THEN IF option > CM_DEFAULT THEN option
       ELSE IF f.gtid_supported THEN CM_SLAVE_POS ELSE CM_NO
  ELSE f.mode

CM_master_use_gtid_t_assign(f, mode) == [f EXCEPT !.mode = mode]

\* a reset that also forgets what was learnt about the master
CM_master_use_gtid_t_set_default_forgetful(f) ==
  [f |-> [mode |-> CM_DEFAULT, gtid_supported |-> TRUE], ret |-> FALSE]

CM_master_use_gtid_t_set_default(f) ==
  [f |-> [f EXCEPT !.mode = CM_DEFAULT], ret |-> FALSE]

CM_master_use_gtid_t_load_from(f, file) ==
  Bind(CM_from_chars(file, INT32), LAMBDA r :
    IF r.ret \/ r.value > CM_SLAVE_POS \/ r.value < CM_CURRENT_POS
    THEN [ret |-> TRUE, file |-> r.file, f |-> f]
    ELSE [ret |-> FALSE, file |-> r.file,
          f |-> CM_master_use_gtid_t_assign(f, r.value)])

\* to_chars(file, static_cast<unsigned char>(mode))
CM_master_use_gtid_t_save_to(f, option, file, fill) ==
  CM_to_chars(file, CM_master_use_gtid_t_value(f, option) % 256, UINT8, fill)

\* ---- master_heartbeat_period_t: float period, in seconds ----
\* A float is held as its thousandths (1.5 is 1500, -1.0 is -1000): every
\* value the fields are given here has at most three decimals.
HB_UNSET == -1000

CM_master_heartbeat_period_t_is_default(f) == f.period < 0

\* the option: float ::master_heartbeat_period and slave_net_timeout
CM_master_heartbeat_period_t_value(f, option) ==
  IF CM_master_heartbeat_period_t_is_default(f)
  THEN (IF option.period < 0 THEN option.slave_net_timeout * 500
        ELSE option.period)
  ELSE f.period

CM_master_heartbeat_period_t_assign(f, period) == [period |-> period]

CM_master_heartbeat_period_t_set_default(f) ==
  [f |-> [period |-> HB_UNSET], ret |-> FALSE]

\* the first three decimals of a fraction, as a number
Thousandths(frac) ==
  DigitsValue([i \in 1..3 |-> IF i <= Len(frac) THEN frac[i] ELSE Ch0])

RECURSIVE Pow10(_)
Pow10(e) == IF e = 0 THEN 1 ELSE 10 * Pow10(e - 1)

\* the exponent sscanf("%f") reads after a mantissa: 'e' or 'E', an
\* optional sign and digits; [neg, e], e = 0 when there is none
ScanExponent(bytes) ==
  Bind(Len(bytes) >= 1 /\ bytes[1] \in {Ord("e"), Ord("E")}, LAMBDA mark :
    Bind(mark /\ Len(bytes) >= 2 /\ bytes[2] \in {Ord("-"), Ord("+")}, LAMBDA sign :
      Bind(IF mark THEN DigitRun(bytes, IF sign THEN 3 ELSE 2) ELSE 0, LAMBDA n :
        [neg |-> sign /\ bytes[2] = Ord("-"),
         e   |-> IF n = 0 THEN 0
                 ELSE DigitsValue(SubSeq(bytes, IF sign THEN 3 ELSE 2,
                                         (IF sign THEN 2 ELSE 1) + n))])))

\* init_floatvar_from_file(&period, file, 0) of slave.cc: a line of at most
\* 15 bytes read by sscanf("%f"): an optional sign, digits, an optional
\* point and digits, an optional exponent.  A float too large for the
\* thousandths of this model is held as the largest of them, 2147483.647.
init_floatvar_from_file(file) ==
  Bind(my_b_gets(file, 16), LAMBDA g :
    Bind(g.size >= 1 /\ g.buf[1] \in {Ord("-"), Ord("+")}, LAMBDA sign :
      Bind(IF sign THEN SubSeq(g.buf, 2, g.size) ELSE g.buf, LAMBDA digits :
        Bind(std_from_chars_fixed(digits), LAMBDA d :
          IF g.size = 0 \/ ~d.ok \/ d.neg
          THEN [ret |-> TRUE, value |-> 0, file |-> g.file]
          ELSE Bind(ScanExponent(SubSeq(digits, d.len + 1, Len(digits))), LAMBDA x :
            Bind(IF DigitsLE(StripZeros(d.int), B(<<"2","1","4","7","4","8","2">>))
                 THEN DigitsValue(d.int) * 1000 + Thousandths(d.frac)
                 ELSE 2147483647, LAMBDA m :
              Bind(IF x.neg THEN m \div Pow10(x.e)
                   ELSE IF m <= 2147483647 \div Pow10(x.e) THEN m * Pow10(x.e)
                   ELSE 2147483647, LAMBDA mag :
                [ret |-> FALSE, file |-> g.file,
                 value |-> IF g.buf[1] = Ord("-") THEN 0 - mag ELSE mag])))))))

CM_master_heartbeat_period_t_load_from(f, file) ==
  Bind(init_floatvar_from_file(file), LAMBDA r :
    [ret |-> r.ret, file |-> r.file,
     f |-> IF r.ret THEN f ELSE [period |-> r.value]])

\* my_fcvt(period, 3, buf, nullptr): the seconds with three decimals
CM_master_heartbeat_period_t_save_to(f, option, file) ==
  Bind(CM_master_heartbeat_period_t_value(f, option), LAMBDA v :
    Bind(IF v < 0 THEN 0 - v ELSE v, LAMBDA mag :
      Bind(DecimalDigits(mag % 1000), LAMBDA ms :
        my_b_write(file,
          (IF v < 0 THEN <<Ord("-")>> ELSE <<>>)
          \o DecimalDigits(mag \div 1000) \o <<Ord(".")>>
          \o [i \in 1..(3 - Len(ms)) |-> Ord("0")] \o ms))))

\* ---- IDListConfig: DYNAMIC_ARRAY *list, here the sequence of its ids ----
\* the tokens of a line: its maximal runs of bytes other than ' ' and '\n'
IsSep(c) == c = Ord(" ") \/ c = NL
TokenStarts(bytes) ==
  {i \in DOMAIN bytes : ~IsSep(bytes[i]) /\ (i = 1 \/ IsSep(bytes[i - 1]))}
TokenAt(bytes, i) ==
  Bind({j \in i..Len(bytes) : IsSep(bytes[j])}, LAMBDA ends :
    SubSeq(bytes, i, (IF ends = {} THEN Len(bytes) + 1 ELSE Min(ends)) - 1))
\* the k-th token (k >= 1) of a line that has at least k tokens
Token(bytes, k) ==
  Bind(TokenStarts(bytes), LAMBDA st :
    TokenAt(bytes, CHOOSE i \in st : Cardinality({j \in st : j <= i}) = k))

\* atoi / atol: the leading (signed) decimal number of a token, 0 if none
atoi(tok) ==
  Bind(std_from_chars(tok, INT32), LAMBDA r : IF r.ok THEN r.value ELSE 0)

\* init_dynarray_intvar_from_file(list, file) of slave.cc: the count, then
\* that many ids, each appended to the array as it is read; an absent line
\* is not an error.
init_dynarray_intvar_from_file(list, file) ==
  Bind(my_b_gets(file, 16 * 33), LAMBDA g :
    Bind(Cardinality(TokenStarts(g.buf)), LAMBDA ntok :
      IF g.size = 0 THEN [ret |-> FALSE, file |-> g.file, list |-> list]
      ELSE IF ntok = 0 THEN [ret |-> TRUE, file |-> g.file, list |-> list]
      ELSE Bind(atoi(Token(g.buf, 1)), LAMBDA count :
        Bind(IF count < ntok - 1 THEN count ELSE ntok - 1, LAMBDA have :
          [ret |-> count > ntok - 1, file |-> g.file,
           list |-> list \o [i \in 1..have |-> atoi(Token(g.buf, i + 1))]]))))

CM_IDListConfig_load_from(f, file) ==
  Bind(init_dynarray_intvar_from_file(f.list, file), LAMBDA r :
    [ret |-> r.ret, file |-> r.file, f |-> [list |-> r.list]])

RECURSIVE CM_IDListConfig_write_ids(_, _, _)
CM_IDListConfig_write_ids(file, ids, fill) ==
  IF ids = <<>> THEN file
  ELSE CM_IDListConfig_write_ids(
         CM_to_chars(my_b_write(file, <<Ord(" ")>>), Head(ids), INT32, fill),
         Tail(ids), fill)

\* to_chars(file, list->elements), then each id after a space
CM_IDListConfig_save_to(f, file, fill) ==
  CM_IDListConfig_write_ids(CM_to_chars(file, Len(f.list), UINT64, fill),
                            f.list, fill)

(***************************************************************************)
(* One field at a time: the Persistent interface, dispatched on the kind   *)
(* of the field as the virtual calls are.                                  *)
(***************************************************************************)
MIKinds == {"MI_int", "MI_bool", "MI_path", "MI_gtid", "MI_hb"}
CMKinds == {"CM_int", "CM_bool", "CM_path", "CM_gtid", "CM_hb"}
Kinds == MIKinds \cup CMKinds

IntKinds  == {"MI_int", "CM_int"}
BoolKinds == {"MI_bool", "CM_bool"}
PathKinds == {"MI_path", "CM_path"}
GtidKinds == {"MI_gtid", "CM_gtid"}
HbKinds   == {"MI_hb", "CM_hb"}

\* bounds of the values the fields and the options are given
MaxInt == 2
MaxMillis == 1
\* what memory that was never written may hold
UninitByte == {0, 85}
UninitInt == {-1, 0, 1, 85}
UninitPath == {<<0, 0>>, <<0, 85>>, <<85, 0>>}
UninitPeriod == {HB_UNSET, 0, 85000}

IntValues == 0..MaxInt
PathValues == {<<>>, B(<<"b">>), B(<<"/","a">>)}
MillisValues == {1500 * i : i \in 0..MaxMillis}

is_default(k, f) ==
  CASE k = "MI_int"  -> MI_OptionalField_is_default(f)
    [] k = "MI_hb"   -> MI_OptionalField_is_default(f)
    [] k = "MI_bool" -> MI_OptionalBoolField_is_default(f)
    [] k = "MI_path" -> MI_OptionalPathField_is_default(f)
    [] k = "MI_gtid" -> MI_master_use_gtid_is_default(f)
    [] k = "CM_int"  -> CM_OptionalIntConfig_is_default(f)
    [] k = "CM_hb"   -> CM_master_heartbeat_period_t_is_default(f)
    [] k = "CM_bool" -> CM_OptionalBoolConfig_is_default(f)
    [] k = "CM_path" -> CM_OptionalPathConfig_is_default(f)
    [] k = "CM_gtid" -> CM_master_use_gtid_t_is_default(f)

set_default(k, f) ==
  CASE k = "MI_int"  -> MI_OptionalField_set_default(f)
    [] k = "MI_hb"   -> MI_OptionalField_set_default(f)
    [] k = "MI_bool" -> MI_OptionalBoolField_set_default(f)
    [] k = "MI_path" -> MI_OptionalPathField_set_default(f)
    [] k = "MI_gtid" -> MI_master_use_gtid_set_default(f)
    [] k = "CM_int"  -> CM_OptionalIntConfig_set_default(f)
    [] k = "CM_hb"   -> CM_master_heartbeat_period_t_set_default(f)
    [] k = "CM_bool" -> CM_OptionalBoolConfig_set_default(f)
    [] k = "CM_path" -> CM_OptionalPathConfig_set_default(f)
    [] k = "CM_gtid" -> CM_master_use_gtid_t_set_default(f)

\* operator=(value)
assign(k, f, v) ==
  CASE k = "MI_int"  -> MI_OptionalField_assign(f, v)
    [] k = "MI_hb"   -> MI_OptionalField_assign(f, v)
    [] k = "MI_bool" -> MI_OptionalBoolField_assign(f, v)
    [] k = "MI_path" -> MI_OptionalPathField_assign(f, v)
    [] k = "MI_gtid" -> MI_master_use_gtid_assign(f, v)
    [] k = "CM_int"  -> CM_OptionalIntConfig_assign(f, v)
    [] k = "CM_hb"   -> CM_master_heartbeat_period_t_assign(f, v)
    [] k = "CM_bool" -> CM_OptionalBoolConfig_assign(f, v)
    [] k = "CM_path" -> CM_OptionalPathConfig_assign(f, v)
    [] k = "CM_gtid" -> CM_master_use_gtid_t_assign(f, v)

load_from(k, f, file) ==
  CASE k = "MI_int"  -> MI_OptionalIntField_load_from(f, file, UINT32)
    [] k = "MI_hb"   -> MI_master_heartbeat_period_load_from(f, file)
    [] k = "MI_bool" -> MI_OptionalBoolField_load_from(f, file)
    [] k = "MI_path" -> MI_OptionalPathField_load_from(f, file)
    [] k = "MI_gtid" -> MI_master_use_gtid_load_from(f, file)
    [] k = "CM_int"  -> CM_OptionalIntConfig_load_from(f, file, UINT32)
    [] k = "CM_hb"   -> CM_master_heartbeat_period_t_load_from(f, file)
    [] k = "CM_bool" -> CM_OptionalBoolConfig_load_from(f, file)
    [] k = "CM_path" -> CM_OptionalPathConfig_load_from(f, file)
    [] k = "CM_gtid" -> CM_master_use_gtid_t_load_from(f, file)

\* the conversion operator: the effective value.  ub is what a read of a
\* disengaged std::optional yields.
value(k, f, option, ub) ==
  CASE k = "MI_int"  -> MI_OptionalIntField_value(f, option)
    [] k = "MI_hb"   -> MI_master_heartbeat_period_value(f, option, ub)
    [] k = "MI_bool" -> MI_OptionalBoolField_value(f, option)
    [] k = "MI_path" -> MI_OptionalPathField_value(f, option)
    [] k = "MI_gtid" -> MI_master_use_gtid_value(f, option)
    [] k = "CM_int"  -> CM_OptionalIntConfig_value(f, option)
    [] k = "CM_hb"   -> CM_master_heartbeat_period_t_value(f, option)
    [] k = "CM_bool" -> CM_OptionalBoolConfig_value(f, option)
    [] k = "CM_path" -> CM_OptionalPathConfig_value(f, option)
    [] k = "CM_gtid" -> CM_master_use_gtid_t_value(f, option)

\* fill is what the unwritten bytes of to_chars's buffer hold
save_to(k, f, option, file, ub, fill) ==
  CASE k = "MI_int"  -> MI_OptionalIntField_save_to(f, option, file)
    [] k = "MI_hb"   -> MI_master_heartbeat_period_save_to(f, option, ub, file)
    [] k = "MI_bool" -> MI_OptionalBoolField_save_to(f, option, file)
    [] k = "MI_path" -> MI_OptionalPathField_save_to(f, option, file)
    [] k = "MI_gtid" -> MI_master_use_gtid_save_to(f, option, file)
    [] k = "CM_int"  -> CM_OptionalIntConfig_save_to(f, option, file, UINT32, fill)
    [] k = "CM_hb"   -> CM_master_heartbeat_period_t_save_to(f, option, file)
    [] k = "CM_bool" -> CM_OptionalBoolConfig_save_to(f, option, file, fill)
    [] k = "CM_path" -> CM_OptionalPathConfig_save_to(f, option, file)
    [] k = "CM_gtid" -> CM_master_use_gtid_t_save_to(f, option, file, fill)

\* the members as they are before any method has run: a std::optional is
\* disengaged and gtid_supported is true; the rest is not initialized
Uninitialized(k) ==
  CASE k \in IntKinds \cup {"MI_hb"} -> {Nullopt}
    [] k \in BoolKinds -> {[value |-> v] : v \in UninitInt}
    [] k \in PathKinds -> {[buf |-> b] : b \in UninitPath}
    [] k \in GtidKinds -> {[mode |-> m, gtid_supported |-> TRUE] : m \in UninitInt}
    [] k = "CM_hb"     -> {[period |-> p] : p \in UninitPeriod}

\* MasterInfoFile::MasterInfoFile: set_default() on every field of FIELDS_MAP
MI_Constructed(k) == {set_default(k, f).f : f \in Uninitialized(k)}

\* Persistent::Persistent of change_master.hh calls set_default() while the
\* object is still a Persistent, so the call is Persistent::set_default
CM_Constructed(k) == {Persistent_set_default(f).f : f \in Uninitialized(k)}

Constructed(k) == IF k \in MIKinds THEN MI_Constructed(k) ELSE CM_Constructed(k)

\* the values the option behind a field may be set to
Options(k) ==
  CASE k \in IntKinds  -> IntValues \cup {60}
    [] k \in BoolKinds -> BOOLEAN
    [] k \in PathKinds -> {<<>>, B(<<"/","o">>)}
    [] k = "MI_gtid"   -> MI_NO..MI_DEFAULT
    [] k = "CM_gtid"   -> CM_DEFAULT..CM_SLAVE_POS
    [] k = "MI_hb"     -> {[period |-> p, slave_net_timeout |-> t] :
                             p \in {Nullopt, [has_value |-> TRUE, value |-> 3000]},
                             t \in {60, 7}}
    [] k = "CM_hb"     -> {[period |-> p, slave_net_timeout |-> t] :
                             p \in {HB_UNSET, 3000}, t \in {60, 7}}

\* the options as the server starts with them
InitialOption(k) ==
  CASE k \in IntKinds  -> master_connect_retry_init
    [] k \in BoolKinds -> TRUE
    [] k \in PathKinds -> <<>>
    [] k = "MI_gtid"   -> MI_DEFAULT
    [] k = "CM_gtid"   -> CM_DEFAULT
    [] k = "MI_hb"     -> [period |-> Nullopt, slave_net_timeout |-> 60]
    [] k = "CM_hb"     -> [period |-> HB_UNSET, slave_net_timeout |-> 60]

\* the values a caller may assign
AssignValues(k) ==
  CASE k \in IntKinds  -> IntValues
    [] k \in BoolKinds -> BOOLEAN
    [] k \in PathKinds -> PathValues
    [] k \in GtidKinds -> MI_NO..MI_SLAVE_POS
    [] k \in HbKinds   -> MillisValues

\* the value a field stores, whatever is_default() says
stored(k, f) ==
  CASE k \in IntKinds \cup {"MI_hb"} -> f.value
    [] k \in BoolKinds -> f.value # TRIL_NO
    [] k \in PathKinds -> CStr(f.buf)
    [] k \in GtidKinds -> f.mode
    [] k = "CM_hb"     -> f.period

(***************************************************************************)
(* The streams a load is given: one line and the line after it, the end    *)
(* of the stream, and a last line that has no newline.                     *)
(***************************************************************************)
Lines ==
  { <<>>, B(<<"0">>), B(<<"1">>), B(<<"2">>), B(<<"3">>), B(<<"1","0">>),
    B(<<"2","5">>), B(<<"-","1">>), B(<<"x">>), B(<<"1","x">>),
    B(<<"1",".","5">>), B(<<"6","0">>), B(<<"/","a">>),
    B(<<"1","e","3">>), B(<<"0",".","0","0","1","9">>),
    B(<<"4","2","9","4","9","6","7",".","2","9","5">>),
    B(<<"4","2","9","4","9","6","8">>) }
NextLine == B(<<"7","\n">>)
Streams == {l \o <<NL>> \o NextLine : l \in Lines} \cup {<<>>, B(<<"1">>)}

\* the line a stream starts with, without its newline
FirstLine(bytes) ==
  Bind(FirstNL(bytes, Len(bytes)), LAMBDA nl :
    IF nl = 0 THEN bytes ELSE SubSeq(bytes, 1, nl - 1))
HasLine(bytes) == FirstNL(bytes, Len(bytes)) > 0

VARIABLES
  kind,        \* the kind of the field under test
  f,           \* the field
  option,      \* the mariadbd option behind the field
  file,        \* the IO_CACHE of the last load or save
  ret,         \* what the last set_default() or load_from() returned
  last,        \* the last operation on the field
  arg,         \* the value that operation assigned or stored
  got,         \* the last value read, if read since the last operation
  optChanged,  \* the option was set since the last operation on the field
  cm,          \* a ChangeMaster record
  orig,        \* the record as it was before it was saved or loaded
  pc,          \* the step of the save and load scenario
  steps,       \* the number of operations the record was populated with
  reset,       \* the members whose last operation was set_default()
  mem,         \* what memory that was never written holds in this run
  thd,         \* the sessions that create and drop system triggers
  mdl_locks,   \* the object-name locks that are held
  event_table  \* the table mysql.event: its rows and who has it open

vars == <<kind, f, option, file, ret, last, arg, got, optChanged,
          cm, orig, pc, steps, reset, mem, thd, mdl_locks, event_table>>
recVars == <<cm, orig, pc, steps, reset, mem>>
fieldVars == <<kind, f, option, last, arg, got, optChanged>>
trgVars == <<thd, mdl_locks, event_table>>

\* no session runs a statement on triggers
TrgIdle ==
  /\ thd = <<>>
  /\ mdl_locks = {}
  /\ event_table = [rows |-> {}, opened_by |-> 0]

NotRead == [valid |-> FALSE, v |-> 0]

FieldInit ==
  /\ TrgIdle
  /\ kind \in Kinds
  /\ f \in Constructed(kind)
  /\ option = InitialOption(kind)
  /\ file = NewFile(<<>>)
  /\ ret = FALSE
  /\ last = "ctor"
  /\ arg = 0
  /\ got = NotRead
  /\ optChanged = FALSE
  /\ cm = <<>> /\ orig = <<>> /\ pc = "field"
  /\ steps = 0 /\ reset = {} /\ mem = 0

SetDefault ==
  /\ pc = "field"
  /\ f' = set_default(kind, f).f
  /\ ret' = set_default(kind, f).ret
  /\ last' = "set_default"
  /\ arg' = 0
  /\ got' = NotRead
  /\ optChanged' = FALSE
  /\ file' = NewFile(<<>>)
  /\ UNCHANGED <<trgVars, kind, option, recVars>>

Assign ==
  \E v \in AssignValues(kind) :
     /\ pc = "field"
     /\ f' = assign(kind, f, v)
     /\ last' = "assign"
     /\ arg' = v
     /\ got' = NotRead
     /\ optChanged' = FALSE
     /\ file' = NewFile(<<>>)
     /\ UNCHANGED <<trgVars, kind, option, ret, recVars>>

\* operator=(nullptr) of a path field.  ChangeMaster's operator tests the
\* pointer; MasterInfoFile's hands it to strmake_buf(), whose read through
\* it is undefined: what is copied is any bytes, or none.
AssignNull ==
  \E g \in {<<>>} \cup {<<b>> : b \in UninitByte \ {0}} :
     /\ pc = "field"
     /\ kind \in PathKinds
     /\ f' = IF kind = "MI_path"
             THEN MI_OptionalPathField_assign(f, g)
             ELSE CM_OptionalPathConfig_assign(f, nullptr)
     /\ last' = "assign_null"
     /\ arg' = nullptr
     /\ got' = NotRead
     /\ optChanged' = FALSE
     /\ file' = NewFile(<<>>)
     /\ UNCHANGED <<trgVars, kind, option, ret, recVars>>

Load ==
  \E s \in Streams :
     \E r \in {load_from(kind, f, NewFile(s))} :
        /\ pc = "field"
        /\ f' = r.f
        /\ ret' = r.ret
        /\ file' = r.file
        /\ last' = "load"
        /\ arg' = stored(kind, r.f)
        /\ got' = NotRead
        /\ optChanged' = FALSE
        /\ UNCHANGED <<trgVars, kind, option, recVars>>

Save ==
  \E ub \in UninitByte, fill \in UninitByte :
     /\ pc = "field"
     /\ file' = save_to(kind, f, option, NewFile(<<>>), ub, fill)
     /\ UNCHANGED <<trgVars, kind, f, option, ret, last, arg, got, optChanged, recVars>>

Read ==
  \E ub \in UninitByte :
     /\ pc = "field"
     /\ got' = [valid |-> TRUE, v |-> value(kind, f, option, ub)]
     /\ UNCHANGED <<trgVars, kind, f, option, file, ret, last, arg, optChanged, recVars>>

SetOption ==
  \E o \in Options(kind) :
     /\ pc = "field"
     /\ o # option
     /\ option' = o
     /\ optChanged' = TRUE
     /\ got' = NotRead
     /\ UNCHANGED <<trgVars, kind, f, file, ret, last, arg, recVars>>

\* the replication channel writes the cached capability of the master
SetGtidSupported ==
  /\ pc = "field"
  /\ kind \in GtidKinds
  /\ \E b \in BOOLEAN :
        /\ b # f.gtid_supported
        /\ f' = [f EXCEPT !.gtid_supported = b]
  /\ got' = NotRead
  /\ UNCHANGED <<trgVars, kind, option, file, ret, last, arg, optChanged, recVars>>

Next ==
  \/ SetDefault
  \/ Assign
  \/ AssignNull
  \/ Load
  \/ Save
  \/ Read
  \/ SetOption
  \/ SetGtidSupported

Spec == FieldInit /\ [][Next]_vars

(***************************************************************************)
(* The ChangeMaster record and its key=value section.                      *)
(***************************************************************************)
\* static constexpr const char END_MARKER[]= "END_MARKER": the string, to
\* which sizeof adds the terminating NUL
END_MARKER == B(<<"E","N","D","_","M","A","R","K","E","R">>)
sizeof_END_MARKER == Len(END_MARKER) + 1

\* the keys and the members they name, in the order they are declared; the
\* entry of END_MARKER has no member.  The map is unordered: the order in
\* which save_to meets the entries is taken to be this one.
MASTER_INFO_MAP ==
  << [key |-> B(<<"c","o","n","n","e","c","t","_","r","e","t","r","y">>),
      member |-> "master_connect_retry"],
     [key |-> B(<<"s","s","l">>),
      member |-> "master_ssl"],
     [key |-> B(<<"s","s","l","_","c","a">>),
      member |-> "master_ssl_ca"],
     [key |-> B(<<"s","s","l","_","c","a","p","a","t","h">>),
      member |-> "master_ssl_capath"],
     [key |-> B(<<"s","s","l","_","c","e","r","t">>),
      member |-> "master_ssl_cert"],
     [key |-> B(<<"s","s","l","_","c","i","p","h","e","r">>),
      member |-> "master_ssl_cipher"],
     [key |-> B(<<"s","s","l","_","k","e","y">>),
      member |-> "master_ssl_key"],
     [key |-> B(<<"s","s","l","_","c","r","l">>),
      member |-> "master_ssl_crl"],
     [key |-> B(<<"s","s","l","_","c","r","l","p","a","t","h">>),
      member |-> "master_ssl_crlpath"],
     [key |-> B(<<"s","s","l","_","v","e","r","i","f","y","_","s","e","r","v","e","r","_","c","e","r","t">>),
      member |-> "master_ssl_verify_server_cert"],
     [key |-> B(<<"h","e","a","r","t","b","e","a","t","_","p","e","r","i","o","d">>),
      member |-> "master_heartbeat_period"],
     [key |-> B(<<"r","e","t","r","y","_","c","o","u","n","t">>),
      member |-> "master_retry_count"],
     [key |-> B(<<"u","s","i","n","g","_","g","t","i","d">>),
      member |-> "master_use_gtid"],
     [key |-> B(<<"d","o","_","d","o","m","a","i","n","_","i","d","s">>),
      member |-> "do_domain_ids"],
     [key |-> B(<<"i","g","n","o","r","e","_","d","o","m","a","i","n","_","i","d","s">>),
      member |-> "ignore_domain_ids"],
     [key |-> END_MARKER, member |-> ""] >>

\* sizeof("ssl_verify_server_cert")
MAX_KEY_SIZE == Len(B(<<"s","s","l","_","v","e","r","i","f","y","_","s","e","r","v","e","r","_","c","e","r","t">>)) + 1
KEY_NOT_FOUND == 0

\* MASTER_INFO_MAP.find(std::string_view(key, i)): the index of the entry
MASTER_INFO_MAP_find(key) ==
  Bind({i \in DOMAIN MASTER_INFO_MAP : MASTER_INFO_MAP[i].key = key}, LAMBDA hit :
    IF hit = {} THEN KEY_NOT_FOUND ELSE Min(hit))

Members == {MASTER_INFO_MAP[i].member : i \in DOMAIN MASTER_INFO_MAP} \ {""}
IDListMembers == {"do_domain_ids", "ignore_domain_ids"}

\* the class of each member of ChangeMaster
MemberKind(m) ==
  CASE m \in {"master_connect_retry", "master_retry_count"} -> "CM_int"
    [] m \in {"master_ssl", "master_ssl_verify_server_cert"} -> "CM_bool"
    [] m = "master_heartbeat_period" -> "CM_hb"
    [] m = "master_use_gtid" -> "CM_gtid"
    [] m \in IDListMembers -> "IDList"
    [] OTHER -> "CM_path"

\* the integer type of an OptionalIntConfig: that of its mariadbd option
MemberIntType(m) == IF m = "master_retry_count" THEN UINT64 ELSE UINT32

\* the mariadbd options, which hold the values they are declared with
MemberOption(m) ==
  IF m = "master_retry_count" THEN 100000 ELSE InitialOption(MemberKind(m))

\* the virtual calls ChangeMaster makes on a member
Member_is_default(m, fld) ==
  IF m \in IDListMembers THEN Persistent_is_default(fld)
  ELSE is_default(MemberKind(m), fld)

Member_set_default(m, fld) ==
  IF m \in IDListMembers THEN Persistent_set_default(fld)
  ELSE set_default(MemberKind(m), fld)

Member_load_from(m, fld, io) ==
  IF m \in IDListMembers THEN CM_IDListConfig_load_from(fld, io)
  ELSE IF MemberKind(m) = "CM_int"
  THEN CM_OptionalIntConfig_load_from(fld, io, MemberIntType(m))
  ELSE load_from(MemberKind(m), fld, io)

\* what memory that was never written may hold: zeroes, the bytes of
\* members that were reset before, or anything else
Garbage ==
  { [byte |-> 0,  int |-> 0,  path |-> <<0, 0>>,  period |-> 0],
    [byte |-> 85, int |-> -1, path |-> <<0, 85>>, period |-> HB_UNSET],
    [byte |-> 85, int |-> 85, path |-> <<85, 0>>, period |-> 85000] }

\* ChangeMaster::ChangeMaster(m_domain_ids): the two lists point at arrays
\* of the Domain_id_filter, empty at first; every other member is built by
\* Persistent::Persistent alone, whose set_default() call is the base's
ChangeMaster_ChangeMaster(g) ==
  [m \in Members |->
     Persistent_set_default(
       CASE MemberKind(m) = "CM_int"  -> Nullopt
         [] MemberKind(m) = "CM_bool" -> [value |-> g.int]
         [] MemberKind(m) = "CM_path" -> [buf |-> g.path]
         [] MemberKind(m) = "CM_gtid" -> [mode |-> g.int, gtid_supported |-> TRUE]
         [] MemberKind(m) = "CM_hb"   -> [period |-> g.period]
         [] MemberKind(m) = "IDList"  -> [list |-> <<>>]).f]

\* ChangeMaster::load_from(file): one turn of while (true) per call.  The
\* for loop reads up to MAX_KEY_SIZE bytes and stops at the first '=' or
\* '\n' among them; a failed load_from() or set_default() of a member is
\* only logged.
RECURSIVE ChangeMaster_load_from(_, _, _)
ChangeMaster_load_from(rec, io, seen) ==
  Bind(Unread(io), LAMBDA rest :
    Bind({i \in 1..MAX_KEY_SIZE :
            i <= Len(rest) /\ (rest[i] = Ord("=") \/ rest[i] = NL)}, LAMBDA stops :
      IF stops = {}
      THEN IF Len(rest) < MAX_KEY_SIZE
           THEN [ret |-> TRUE, rec |-> rec,
                 file |-> [io EXCEPT !.pos = Len(io.data)]]
           ELSE ChangeMaster_load_from(
                  rec, [io EXCEPT !.pos = @ + MAX_KEY_SIZE], seen)
      ELSE Bind(Min(stops), LAMBDA i :
        Bind(MASTER_INFO_MAP_find(SubSeq(rest, 1, i - 1)), LAMBDA found_kv :
          Bind([io EXCEPT !.pos = @ + i], LAMBDA io2 :
            IF found_kv = KEY_NOT_FOUND
            THEN ChangeMaster_load_from(rec, io2, seen)
            ELSE IF MASTER_INFO_MAP[found_kv].key = END_MARKER
            THEN [ret |-> FALSE, rec |-> rec, file |-> io2]
            ELSE IF found_kv \in seen
            THEN ChangeMaster_load_from(rec, io2, seen)
            ELSE Bind(MASTER_INFO_MAP[found_kv].member, LAMBDA m :
              Bind(IF rest[i] = Ord("=")
                   THEN Member_load_from(m, rec[m], io2)
                   ELSE [f |-> Member_set_default(m, rec[m]).f, file |-> io2],
                   LAMBDA r :
                ChangeMaster_load_from([rec EXCEPT ![m] = r.f], r.file,
                                       seen \cup {found_kv}))))))))

\* the for loop of ChangeMaster::save_to: the key of each member that
\* is_default(), from entry i on
RECURSIVE ChangeMaster_save_defaults(_, _, _)
ChangeMaster_save_defaults(rec, io, i) ==
  IF i > Len(MASTER_INFO_MAP) THEN io
  ELSE Bind(MASTER_INFO_MAP[i], LAMBDA e :
    ChangeMaster_save_defaults(rec,
      IF e.member # "" /\ Member_is_default(e.member, rec[e.member])
      THEN my_b_write(my_b_write(io, e.key), <<NL>>)
      ELSE io,
      i + 1))

\* ChangeMaster::save_to(file); fill is what the unwritten bytes of
\* to_chars's buffer hold
ChangeMaster_save_to(rec, io, fill) ==
  Bind(IF ~Member_is_default("master_use_gtid", rec["master_use_gtid"])
       THEN my_b_write(
              CM_master_use_gtid_t_save_to(rec["master_use_gtid"],
                MemberOption("master_use_gtid"),
                my_b_write(io, B(<<"u","s","i","n","g","_","g","t","i","d","=">>)), fill),
              <<NL>>)
       ELSE io, LAMBDA io1 :
    Bind(IF ~Member_is_default("do_domain_ids", rec["do_domain_ids"])
         THEN my_b_write(
                CM_IDListConfig_save_to(rec["do_domain_ids"],
                  my_b_write(io1, B(<<"d","o","_","d","o","m","a","i","n","_","i","d","s","=">>)), fill),
                <<NL>>)
         ELSE io1, LAMBDA io2 :
      Bind(IF ~Member_is_default("ignore_domain_ids", rec["ignore_domain_ids"])
           THEN my_b_write(
                  CM_IDListConfig_save_to(rec["ignore_domain_ids"],
                    my_b_write(io2, B(<<"i","g","n","o","r","e","_","d","o","m","a","i","n","_","i","d","s","=">>)), fill),
                  <<NL>>)
           ELSE io2, LAMBDA io3 :
        my_b_write(
          my_b_write(ChangeMaster_save_defaults(rec, io3, 1),
                     SubSeq(END_MARKER \o <<Ord("NUL")>>, 1, sizeof_END_MARKER)),
          <<NL>>))))

\* the number of operations a record is populated with
MaxOps == 1

\* the values a caller may assign to a member
MemberValues(m) ==
  CASE MemberKind(m) = "CM_int"  -> {1}
    [] MemberKind(m) = "CM_bool" -> BOOLEAN
    [] MemberKind(m) = "CM_path" -> {B(<<"/","a">>)}
    [] MemberKind(m) = "CM_gtid" -> {CM_NO, CM_SLAVE_POS}
    [] MemberKind(m) = "CM_hb"   -> {1500}
    [] MemberKind(m) = "IDList"  -> {<<7, 3>>}

\* key=value sections other than the ones save_to wrote
Blocks ==
  { <<>>,
    B(<<"E","N","D","_","M","A","R","K","E","R">>) \o <<NL>>,
    B(<<"s","s","l">>) \o <<NL>> \o B(<<"E","N","D","_","M","A","R","K","E","R">>) \o <<NL>>,
    B(<<"s","s","l","=","1">>) \o <<NL>> \o B(<<"s","s","l","=","0">>) \o <<NL>>
      \o B(<<"E","N","D","_","M","A","R","K","E","R">>) \o <<NL>>,
    B(<<"s","s","l","=","x">>) \o <<NL>> \o B(<<"u","s","i","n","g","_","g","t","i","d","=","2">>) \o <<NL>>
      \o B(<<"E","N","D","_","M","A","R","K","E","R">>) \o <<NL>>,
    B(<<"f","o","o","=","1">>) \o <<NL>> \o B(<<"c","o","n","n","e","c","t","_","r","e","t","r","y","=","5">>) \o <<NL>>,
    \* keys that MASTER_INFO_MAP does not have
    B(<<"f","o","o">>) \o <<NL>> \o END_MARKER \o <<NL>>,
    B(<<"f","o","o","=","s","s","l">>) \o <<NL>> \o END_MARKER \o <<NL>>,
    B(<<"f","o","o","=">>) \o END_MARKER \o <<NL>>,
    \* keys of MAX_KEY_SIZE bytes and more
    [i \in 1..MAX_KEY_SIZE |-> Ord("x")] \o <<NL>> \o END_MARKER \o <<NL>>,
    [i \in 1..MAX_KEY_SIZE |-> Ord("x")] \o B(<<"s","s","l">>) \o <<NL>>
      \o END_MARKER \o <<NL>>,
    \* a key that comes twice, and lines after the END_MARKER
    B(<<"s","s","l","=","1">>) \o <<NL>> \o B(<<"s","s","l","=","s","s","l","_","c","a">>) \o <<NL>>
      \o END_MARKER \o <<NL>>,
    END_MARKER \o <<NL>> \o B(<<"s","s","l">>) \o <<NL>> }

CMInit ==
  /\ TrgIdle
  /\ mem \in Garbage
  /\ cm = ChangeMaster_ChangeMaster(mem)
  /\ orig = cm
  /\ pc = "populate"
  /\ steps = 0
  /\ reset = {}
  /\ file = NewFile(<<>>)
  /\ ret = FALSE
  /\ kind = "CM_int" /\ f = Nullopt /\ option = InitialOption("CM_int")
  /\ last = "ctor" /\ arg = 0 /\ got = NotRead /\ optChanged = FALSE

\* member.set_default()
CMSetDefault ==
  /\ pc = "populate"
  /\ steps < MaxOps
  /\ \E m \in Members :
        /\ cm' = [cm EXCEPT ![m] = Member_set_default(m, cm[m]).f]
        /\ ret' = Member_set_default(m, cm[m]).ret
        /\ reset' = reset \cup {m}
  /\ steps' = steps + 1
  /\ UNCHANGED <<trgVars, fieldVars, file, orig, pc, mem>>

\* member= value; a list is filled through the array it points at
CMAssign ==
  /\ pc = "populate"
  /\ steps < MaxOps
  /\ \E m \in Members : \E v \in MemberValues(m) :
        /\ cm' = [cm EXCEPT ![m] =
                    IF m \in IDListMembers THEN [list |-> v]
                    ELSE assign(MemberKind(m), cm[m], v)]
        /\ reset' = reset \ {m}
  /\ steps' = steps + 1
  /\ UNCHANGED <<trgVars, fieldVars, file, ret, orig, pc, mem>>

\* master_use_gtid.gtid_supported= false
CMSetGtidSupported ==
  /\ pc = "populate"
  /\ steps < MaxOps
  /\ cm["master_use_gtid"].gtid_supported
  /\ cm' = [cm EXCEPT !["master_use_gtid"].gtid_supported = FALSE]
  /\ steps' = steps + 1
  /\ UNCHANGED <<trgVars, fieldVars, file, ret, orig, pc, reset, mem>>

\* save_to(file) on an empty file
CMSave ==
  /\ pc = "populate"
  /\ file' = ChangeMaster_save_to(cm, NewFile(<<>>), mem.byte)
  /\ orig' = cm
  /\ pc' = "saved"
  /\ UNCHANGED <<trgVars, fieldVars, cm, ret, steps, reset, mem>>

\* load_from(file) of what was saved, into a record just constructed
CMLoad ==
  /\ pc = "saved"
  /\ \E r \in {ChangeMaster_load_from(ChangeMaster_ChangeMaster(mem),
                                      NewFile(file.data), {})} :
        /\ cm' = r.rec
        /\ ret' = r.ret
        /\ file' = r.file
  /\ pc' = "loaded"
  /\ UNCHANGED <<trgVars, fieldVars, orig, steps, reset, mem>>

\* load_from(file) of a section that was written elsewhere
CMLoadBlock ==
  /\ pc = "populate"
  /\ \E b \in Blocks :
        \E r \in {ChangeMaster_load_from(cm, NewFile(b), {})} :
           /\ cm' = r.rec
           /\ ret' = r.ret
           /\ file' = r.file
  /\ orig' = cm
  /\ pc' = "block"
  /\ UNCHANGED <<trgVars, fieldVars, steps, reset, mem>>

CMNext ==
  \/ CMSetDefault
  \/ CMAssign
  \/ CMSetGtidSupported
  \/ CMSave
  \/ CMLoad
  \/ CMLoadBlock

SpecCM == CMInit /\ [][CMNext]_vars

\* a field on its own or a whole record, whichever the run starts with
AllInit == FieldInit \/ CMInit

AllNext ==
  \/ SetDefault
  \/ Assign
  \/ AssignNull
  \/ Load
  \/ Save
  \/ Read
  \/ SetOption
  \/ SetGtidSupported
  \/ CMSetDefault
  \/ CMAssign
  \/ CMSetGtidSupported
  \/ CMSave
  \/ CMLoad
  \/ CMLoadBlock

SpecAll == AllInit /\ [][AllNext]_vars

(***************************************************************************)
(* What the record is to do, stated on the record specification.           *)
(***************************************************************************)
\* the value a member reports to its readers
EffectiveValue(m, fld) ==
  IF m \in IDListMembers THEN fld.list
  ELSE value(MemberKind(m), fld, MemberOption(m), 0)

\* every member is DEFAULT or SET to a value of its type
ValidRecord(rec) ==
  \A m \in Members :
     CASE MemberKind(m) = "CM_bool" -> rec[m].value \in {TRIL_DEFAULT, TRIL_NO, TRIL_YES}
       [] MemberKind(m) = "CM_gtid" -> rec[m].mode \in CM_DEFAULT..CM_SLAVE_POS
       [] MemberKind(m) = "CM_hb"   -> rec[m].period = HB_UNSET \/ rec[m].period >= 0
       [] MemberKind(m) = "CM_path" -> rec[m].buf[1] = 0 \/ rec[m].buf[1] = Ord("/")
       [] OTHER -> TRUE

\* the members that have a DEFAULT
Defaultable == Members \ IDListMembers

\* the key MASTER_INFO_MAP gives a member
KeyOf(m) ==
  MASTER_INFO_MAP[CHOOSE i \in DOMAIN MASTER_INFO_MAP :
                    MASTER_INFO_MAP[i].member = m].key

\* the number of lines of bytes that start with prefix, and of those that
\* are prefix and no more
LinesStartingWith(bytes, prefix) ==
  Cardinality({i \in 1..Len(bytes) :
     /\ i = 1 \/ bytes[i - 1] = NL
     /\ i + Len(prefix) - 1 <= Len(bytes)
     /\ SubSeq(bytes, i, i + Len(prefix) - 1) = prefix})
LinesEqualTo(bytes, line) == LinesStartingWith(bytes, line \o <<NL>>)

\* C1: a record whose members are each DEFAULT or SET to a valid value,
\* written with save_to and read with load_from into a record just
\* constructed, loads without error, and every member of the loaded record
\* reports the value the member of the original reports.
C1_RoundTrip ==
  (pc = "loaded" /\ ValidRecord(orig)) =>
     /\ ret = FALSE
     /\ \A m \in Members : EffectiveValue(m, cm[m]) = EffectiveValue(m, orig[m])

\* C2: for a member that was reset with set_default(), save_to writes one
\* line that is the bare key of the member and no key=value line, and
\* loading the section back leaves the member with is_default() true.
C2_DefaultIdempotence ==
  \A m \in reset \cap Defaultable :
     /\ pc = "saved" =>
          /\ LinesEqualTo(file.data, KeyOf(m)) = 1
          /\ LinesStartingWith(file.data, KeyOf(m) \o <<Ord("=")>>) = 0
     /\ pc = "loaded" => Member_is_default(m, cm[m])

(***************************************************************************)
(* What the fields are to do, stated on the single-field specification.    *)
(***************************************************************************)
\* the field was reset and not written since: set_default() was the last
\* operation on it, or MasterInfoFile's constructor, which calls it
InDefaultState ==
  \/ last = "set_default"
  \/ last = "ctor" /\ kind \in MIKinds

\* the field was written and not reset since: v was assigned or loaded
InSetState ==
  \/ last = "assign"
  \/ last = "load" /\ ret = FALSE

\* the mode, the boolean, the path or the milliseconds that a DEFAULT field
\* is to report, given the options as they are now
Fallback ==
  CASE kind \in IntKinds \cup BoolKinds \cup PathKinds -> option
    [] kind = "MI_gtid" ->
         IF option \in MI_NO..MI_SLAVE_POS THEN option
         ELSE IF f.gtid_supported THEN MI_SLAVE_POS ELSE MI_NO
    [] kind = "CM_gtid" ->
         IF option \in CM_NO..CM_SLAVE_POS THEN option
         ELSE IF f.gtid_supported THEN CM_SLAVE_POS ELSE CM_NO
    [] kind = "MI_hb" ->
         IF option.period.has_value THEN option.period.value
         ELSE option.slave_net_timeout * 500
    [] kind = "CM_hb" ->
         IF option.period >= 0 THEN option.period
         ELSE option.slave_net_timeout * 500

\* C3: whenever load_from returns success the field is not in default
\* state afterwards, whatever the value loaded.
C3_LoadedIsNotDefault ==
  (last = "load" /\ ret = FALSE) => ~is_default(kind, f)

\* C4: after set_default(), assignments and successful loads, is_default()
\* is true exactly when the most recent of them was set_default(), and
\* set_default() reports no error.
C4_DefaultIffLastSetDefault ==
  (last = "set_default" \/ InSetState) =>
     /\ is_default(kind, f) <=> (last = "set_default")
     /\ last = "set_default" => ret = FALSE

\* C5: right after construction every defaultable field is DEFAULT:
\* is_default() is true and the effective value is the fallback's.
C5_ConstructedIsDefault ==
  last = "ctor" =>
     /\ is_default(kind, f)
     /\ \A ub \in UninitByte : value(kind, f, option, ub) = Fallback

\* C6: while a field is SET to v, every read of its effective value returns
\* v, whatever the fallback option is changed to.
C6_SetValueIsRead ==
  (InSetState /\ got.valid) => got.v = arg

\* C7: while an optional integer or a trilean boolean is DEFAULT, each read
\* returns the value the fallback option has at the time of that read.
C7_DefaultTracksOption ==
  (kind \in IntKinds \cup BoolKinds /\ InDefaultState /\ got.valid) =>
     got.v = option

\* C7 happens: a DEFAULT field is read after the option was changed
C7_Witness ==
  /\ kind \in IntKinds \cup BoolKinds
  /\ InDefaultState
  /\ optChanged
  /\ option # InitialOption(kind)
  /\ got.valid /\ got.v = option

\* C8: a trilean load succeeds only on the line "0" (the field becomes NO)
\* or the line "1" (the field becomes YES) and fails on any other content.
C8_TrileanLoadIsStrict ==
  (kind \in BoolKinds /\ last = "load") =>
     /\ ret = FALSE <=>
          (HasLine(file.data) /\ FirstLine(file.data) \in {B(<<"0">>), B(<<"1">>)})
     /\ ret = FALSE =>
          /\ ~is_default(kind, f)
          /\ stored(kind, f) = (FirstLine(file.data) = B(<<"1">>))

\* C9: a ranged-enum load accepts exactly the lines "0", "1" and "2", sets
\* the mode to the digit read, and fails on any other content.
C9_GtidLoadIsStrict ==
  (kind \in GtidKinds /\ last = "load") =>
     /\ ret = FALSE <=>
          (HasLine(file.data) /\
           FirstLine(file.data) \in {B(<<"0">>), B(<<"1">>), B(<<"2">>)})
     /\ ret = FALSE => f.mode = FirstLine(file.data)[1] - Ch0

\* C10: a DEFAULT ranged enum reports the option's mode when the option is
\* off, current-position or slave-position; when the option is itself
\* unset, slave-position if gtid_supported and off if not.
C10_GtidDefaultIsLayered ==
  (kind \in GtidKinds /\ InDefaultState /\ got.valid) =>
     got.v = (IF option \in 0..2 THEN option
              ELSE IF f.gtid_supported THEN 2 ELSE 0)

\* C10 happens: both layers are read, the option and the cached flag
C10_Witness ==
  /\ kind \in GtidKinds
  /\ InDefaultState
  /\ got.valid
  /\ ~(option \in 0..2)
  /\ ~f.gtid_supported
  /\ got.v = 0

(***************************************************************************)
(* The cached capability flag.                                             *)
(***************************************************************************)
\* C11: set_default() on the ranged enum, an assignment to it and a load
\* of it leave gtid_supported as it was, and so do the load and the save of
\* the key=value section of the record; the load into a record just
\* constructed leaves the flag as the constructor set it.
C11_GtidSupportedIsKept ==
  [][/\ (pc = "field" /\ kind \in GtidKinds /\
         (SetDefault \/ Assign \/ (last' = "load" /\ Load)))
          => f'.gtid_supported = f.gtid_supported
     /\ (pc = "populate" /\
         (CMSetDefault \/ CMAssign \/ (pc' = "saved" /\ CMSave)
            \/ (pc' = "block" /\ CMLoadBlock)))
          => cm'["master_use_gtid"].gtid_supported
               = cm["master_use_gtid"].gtid_supported
     /\ (pc = "saved" /\ CMLoad)
          => cm'["master_use_gtid"].gtid_supported
               = ChangeMaster_ChangeMaster(mem)["master_use_gtid"].gtid_supported
    ]_vars

\* C11 happens: the flag was written false and the field was reset, assigned
\* or loaded, or the section of the record was loaded
C11_Witness ==
  \/ /\ pc = "field" /\ kind \in GtidKinds
     /\ ~f.gtid_supported
     /\ last \in {"set_default", "assign", "load"}
  \/ /\ pc = "block"
     /\ ~cm["master_use_gtid"].gtid_supported
     /\ cm["master_use_gtid"].mode # orig["master_use_gtid"].mode

(***************************************************************************)
(* The heartbeat period.                                                   *)
(***************************************************************************)
\* a decimal token: digits with at most one point among them
WellFormedDecimal(line) ==
  /\ \E i \in DOMAIN line : IsDigit(line[i])
  /\ \A i \in DOMAIN line : IsDigit(line[i]) \/ line[i] = Ord(".")
  /\ Cardinality({i \in DOMAIN line : line[i] = Ord(".")}) <= 1

\* the digits before and after the point of a decimal token
IntPart(line) ==
  SubSeq(line, 1, Min({i \in 1..(Len(line) + 1) :
                         i > Len(line) \/ line[i] = Ord(".")}) - 1)
FracPart(line) == SubSeq(line, Len(IntPart(line)) + 2, Len(line))

\* the digits of floor(s * 1000) for the decimal token s
MillisDigits(line) ==
  Bind(StripZeros(IntPart(line)
         \o [i \in 1..3 |-> IF i <= Len(FracPart(line))
                            THEN FracPart(line)[i] ELSE Ch0]), LAMBDA ds :
    IF ds = <<>> THEN <<Ch0>> ELSE ds)

\* s is at most 4294967.295 seconds
InDurationRange(line) ==
  DigitsLE(MillisDigits(line), B(<<"4","2","9","4","9","6","7","2","9","5">>))

\* C12: a decimal-seconds token that the duration load accepts is stored as
\* its milliseconds, floor(s * 1000): 1.5 as 1500, 0.0019 as 1.
C12_DurationIsStoredInMillis ==
  (kind = "MI_hb" /\ last = "load" /\ ret = FALSE
     /\ WellFormedDecimal(FirstLine(file.data))) =>
     DecimalDigits(f.value) = MillisDigits(FirstLine(file.data))

\* C13: the duration load succeeds exactly on a line that is a decimal
\* token without sign or exponent, of at most 4294967.295 seconds.
C13_DurationLoadIsStrict ==
  (kind \in HbKinds /\ last = "load") =>
     (ret = FALSE <=>
        /\ HasLine(file.data)
        /\ WellFormedDecimal(FirstLine(file.data))
        /\ InDurationRange(FirstLine(file.data)))

\* the seconds, with three decimals, of m milliseconds
SecondsText(m) ==
  DecimalDigits(m \div 1000) \o <<Ord(".")>>
    \o [i \in 1..3 |-> Ch0 + ((m \div Pow10(3 - i)) % 10)]

C15_DurationDefaultIsHalfTimeout ==
  (kind \in HbKinds /\ InDefaultState /\ got.valid) => got.v = Fallback

\* C16: assigning the null pointer to an optional path field changes
\* nothing: not its bytes, not is_default(), not the value it reports.
C16_NullAssignIsNoOp ==
  [][(pc = "field" /\ kind \in PathKinds /\ last' = "assign_null"
        /\ AssignNull) =>
       /\ f' = f
       /\ is_default(kind, f') = is_default(kind, f)
       /\ value(kind, f', option, 0) = value(kind, f, option, 0)]_vars

(***************************************************************************)
(* The lines of a key=value section.                                       *)
(***************************************************************************)
\* the lines of bytes, each without its newline
RECURSIVE SplitLines(_)
SplitLines(bytes) ==
  IF bytes = <<>> THEN <<>>
  ELSE Bind(Min({i \in 1..(Len(bytes) + 1) :
                   i > Len(bytes) \/ bytes[i] = NL}), LAMBDA n :
    <<SubSeq(bytes, 1, n - 1)>> \o SplitLines(SubSeq(bytes, n + 1, Len(bytes))))

\* lines, each with a newline, one after the other
RECURSIVE JoinLines(_)
JoinLines(lines) ==
  IF lines = <<>> THEN <<>>
  ELSE Head(lines) \o <<NL>> \o JoinLines(Tail(lines))

\* the key of a line: what comes before its first '='
KeyText(line) ==
  SubSeq(line, 1, Min({i \in 1..(Len(line) + 1) :
                         i > Len(line) \/ line[i] = Ord("=")}) - 1)

\* the section without its line j
WithoutLine(bytes, j) ==
  Bind(SplitLines(bytes), LAMBDA ls :
    JoinLines(SubSeq(ls, 1, j - 1) \o SubSeq(ls, j + 1, Len(ls))))

\* the load of the section into the record as it was, had line j of the
\* section not been there
LoadWithoutLine(j) ==
  ChangeMaster_load_from(orig, NewFile(WithoutLine(file.data, j)), {})

\* C17: a line whose key MASTER_INFO_MAP does not have is skipped whole,
\* whatever follows its '=': the load reads on after its newline and ends
\* as it would have ended without the line.
C17_UnknownKeyLineIsSkipped ==
  (/\ pc = "block" /\ file.data # <<>>
   /\ Len(KeyText(SplitLines(file.data)[1])) < MAX_KEY_SIZE
   /\ MASTER_INFO_MAP_find(KeyText(SplitLines(file.data)[1])) = KEY_NOT_FOUND) =>
     /\ ret = LoadWithoutLine(1).ret
     /\ cm = LoadWithoutLine(1).rec
     /\ file.pos = LoadWithoutLine(1).file.pos + Len(SplitLines(file.data)[1]) + 1

\* C18: a line whose key is longer than 22 bytes is skipped whole, newline
\* included: nothing of it is taken for a key, a value or the END_MARKER.
C18_LongKeyLineIsSkipped ==
  (/\ pc = "block" /\ file.data # <<>>
   /\ Len(KeyText(SplitLines(file.data)[1])) >= MAX_KEY_SIZE) =>
     /\ ret = LoadWithoutLine(1).ret
     /\ cm = LoadWithoutLine(1).rec
     /\ file.pos = LoadWithoutLine(1).file.pos + Len(SplitLines(file.data)[1]) + 1

\* C19: of the lines that have the same key of MASTER_INFO_MAP only the
\* first is applied: the load ends as it would have without a later one.
C19_OnlyFirstOccurrenceIsApplied ==
  pc = "block" =>
    \A j \in DOMAIN SplitLines(file.data) :
       (/\ KeyText(SplitLines(file.data)[j]) # END_MARKER
        /\ MASTER_INFO_MAP_find(KeyText(SplitLines(file.data)[j])) # KEY_NOT_FOUND
        /\ \E i \in 1..(j - 1) :
              /\ KeyText(SplitLines(file.data)[i]) = KeyText(SplitLines(file.data)[j])
              /\ \A k \in 1..i : SplitLines(file.data)[k] # END_MARKER) =>
          /\ ret = LoadWithoutLine(j).ret
          /\ cm = LoadWithoutLine(j).rec

\* C20: the load succeeds exactly when the section has a line that is the
\* END_MARKER, and then it has read up to the end of the first such line;
\* it fails when the section ends before one.
C20_LoadEndsAtEndMarker ==
  pc = "block" =>
    /\ ret = FALSE <=> LinesEqualTo(file.data, END_MARKER) > 0
    /\ ret = FALSE =>
         \E j \in DOMAIN SplitLines(file.data) :
            /\ SplitLines(file.data)[j] = END_MARKER
            /\ \A k \in 1..(j - 1) : SplitLines(file.data)[k] # END_MARKER
            /\ file.pos = Len(JoinLines(SubSeq(SplitLines(file.data), 1, j)))
    /\ ret = TRUE => file.pos = Len(file.data)

\* the first line of the section names a member, and the call load_from
\* makes on that member for it reports a failure
FirstLineFails ==
  /\ file.data # <<>>
  /\ Bind(SplitLines(file.data)[1], LAMBDA line :
       Bind(MASTER_INFO_MAP_find(KeyText(line)), LAMBDA found_kv :
         /\ found_kv # KEY_NOT_FOUND
         /\ MASTER_INFO_MAP[found_kv].member # ""
         /\ Bind(MASTER_INFO_MAP[found_kv].member, LAMBDA m :
              IF Len(KeyText(line)) < Len(line)
              THEN Member_load_from(m, orig[m],
                     [data |-> file.data, pos |-> Len(KeyText(line)) + 1]).ret
              ELSE Member_set_default(m, orig[m]).ret)))

\* C21: when the load_from of a member, or the set_default of a member for
\* its bare key, reports a failure, the load of the record fails, even if
\* the END_MARKER comes later in the section.
C21_FieldFailurePropagates ==
  (pc = "block" /\ FirstLineFails) => ret = TRUE

\* the member was assigned a value and not reset since
MemberIsSet(m) ==
  m \notin reset /\ cm[m] # ChangeMaster_ChangeMaster(mem)[m]

\* C22: save_to writes the bare key of a member exactly when the member is
\* DEFAULT; a member that is SET has no line in the section, neither its
\* key nor key=value.
C22_SaveWritesKeysOfDefaultsOnly ==
  pc = "saved" =>
    \A m \in Members :
       /\ m \in reset \cap Defaultable => LinesEqualTo(file.data, KeyOf(m)) = 1
       /\ MemberIsSet(m) =>
            /\ LinesEqualTo(file.data, KeyOf(m)) = 0
            /\ LinesStartingWith(file.data, KeyOf(m) \o <<Ord("=")>>) = 0

\* C23: the last line save_to writes is the END_MARKER and a newline, with
\* no other byte, and load_from of what was saved finds it and succeeds.
C23_SaveEndsWithEndMarker ==
  /\ pc = "saved" =>
       /\ file.data # <<>>
       /\ SplitLines(file.data)[Len(SplitLines(file.data))] = END_MARKER
       /\ file.data[Len(file.data)] = NL
  /\ pc = "loaded" => ret = FALSE

(***************************************************************************)
(* The integer codec.                                                      *)
(***************************************************************************)
\* the integer read from a line by the from_chars of the field's code
ReadInt(k, bytes) ==
  IF k \in MIKinds THEN IntIOCache_from_chars(NewFile(bytes), UINT32)
  ELSE CM_from_chars(NewFile(bytes), UINT32)

\* C24: the save of an integer v writes the minimal decimal digits of v and
\* no other byte, and the integer read from those bytes and a newline is v.
C24_WriteIntIsMinimalDecimal ==
  [][(pc = "field" /\ kind \in IntKinds /\ file' # file /\ Save) =>
       /\ file'.data = std_to_chars(value(kind, f, option, 0))
       /\ ReadInt(kind, file'.data \o <<NL>>).ret = FALSE
       /\ ReadInt(kind, file'.data \o <<NL>>).value = value(kind, f, option, 0)]_vars

\* the line is one decimal integer of the type I, and nothing else
IsIntegerLine(line, I) ==
  /\ line # <<>>
  /\ \A i \in DOMAIN line : IsDigit(line[i])
  /\ DigitsLE(StripZeros(line), I.max)

\* C25: the load of an integer fails on an empty or missing line, on a
\* line that is not entirely a decimal integer, and on a value out of the
\* range of the field's type; it succeeds only on a line that is exactly
\* one integer in range.
C25_ReadIntIsStrict ==
  (kind \in IntKinds /\ last = "load") =>
     (ret = FALSE <=>
        /\ HasLine(file.data)
        /\ IsIntegerLine(FirstLine(file.data), UINT32))

(***************************************************************************)
(* The lists of ids.                                                       *)
(***************************************************************************)
\* each id in its minimal decimal digits, after one space
RECURSIVE IdsText(_)
IdsText(ids) ==
  IF ids = <<>> THEN <<>>
  ELSE <<Ord(" ")>> \o std_to_chars(Head(ids)) \o IdsText(Tail(ids))

\* the line of a list: the count, then the ids
ListText(ids) == std_to_chars(Len(ids)) \o IdsText(ids)

\* C26: the save of a list writes on one line the count and then each id
\* after one space, in the order of the array and in minimal decimal digits
\* (7, 3 as "2 7 3", the empty list as "0"), and the load of that line
\* gives the array the same ids in the same order.
C26_ListIsCountThenIds ==
  \A m \in IDListMembers :
     /\ pc = "saved" =>
          LinesEqualTo(file.data,
                       KeyOf(m) \o <<Ord("=")>> \o ListText(orig[m].list)) = 1
     /\ pc = "loaded" => cm[m].list = orig[m].list

\* C27: a load_from that succeeds has consumed one line of the stream and
\* its newline, no less and no more: the next load starts at the first byte
\* of the line that follows.
C27_LoadConsumesOneLine ==
  (pc = "field" /\ last = "load" /\ ret = FALSE) =>
     /\ HasLine(file.data)
     /\ file.pos = Len(FirstLine(file.data)) + 1

(***************************************************************************)
(* System and DDL triggers (sql_sys_or_ddl_trigger.cc): sessions that run  *)
(* CREATE TRIGGER and DROP TRIGGER, one step of the function at a time.    *)
(***************************************************************************)
Threads == {1, 2}

\* (db, name) of thd->lex->spname
SpNames == { [m_db |-> "",      m_name |-> "t1"],
             [m_db |-> "mysql", m_name |-> "t1"],
             [m_db |-> "test",  m_name |-> "t1"] }

\* values of thd->variables.sql_mode: none, and MODE_ANSI_QUOTES
SqlModes == {0, 4}

\* the namespace of the object name each function locks
LockNamespace(cmd) == IF cmd = "create" THEN "EVENT" ELSE "TRIGGER"

\* the MDL key a session's statement locks
MdlKey(t) == [ns |-> LockNamespace(thd[t].cmd), name |-> thd[t].spname]

\* a session between two statements, with the sql_mode it was given
IdleSession(mode) ==
  [pc |-> "idle", cmd |-> "none", spname |-> [m_db |-> "", m_name |-> ""],
   if_not_exists |-> FALSE, sql_mode |-> mode, saved_mode |-> 0,
   entry_mode |-> mode, was_reset |-> FALSE, ret |-> FALSE]

TrgInit ==
  /\ thd \in [Threads -> {IdleSession(mode) : mode \in SqlModes}]
  /\ mdl_locks = {}
  /\ event_table = [rows |-> {}, opened_by |-> 0]
  /\ kind = "CM_int" /\ f = Nullopt /\ option = InitialOption("CM_int")
  /\ file = NewFile(<<>>) /\ ret = FALSE
  /\ last = "ctor" /\ arg = 0 /\ got = NotRead /\ optChanged = FALSE
  /\ cm = <<>> /\ orig = <<>> /\ pc = "trigger"
  /\ steps = 0 /\ reset = {} /\ mem = 0

\* the function returns r to its caller
Return(t, r) == [thd EXCEPT ![t].pc = "done", ![t].ret = r]

\* the statement starts: the checks of the arguments that both functions
\* make before they lock anything, and sp_process_definer()
Call(t) ==
  \E cmd \in {"create", "drop"}, spname \in SpNames, ine \in BOOLEAN,
     semantic_error \in BOOLEAN, definer_error \in BOOLEAN :
     /\ pc = "trigger"
     /\ thd[t].pc = "idle"
     /\ thd' = [thd EXCEPT ![t] =
          [@ EXCEPT !.cmd = cmd, !.spname = spname, !.if_not_exists = ine,
                    !.entry_mode = thd[t].sql_mode, !.was_reset = FALSE,
                    !.ret = \/ spname.m_db = ""
                            \/ cmd = "create" /\
                                 (spname.m_db = "mysql" \/ semantic_error
                                    \/ definer_error),
                    !.pc = IF \/ spname.m_db = ""
                              \/ cmd = "create" /\
                                   (spname.m_db = "mysql" \/ semantic_error
                                      \/ definer_error)
                           THEN "done" ELSE "lock"]]
     /\ UNCHANGED <<mdl_locks, event_table, fieldVars, recVars, file, ret>>

\* lock_object_name(thd, namespace, db, name): the exclusive lock on the
\* key, which lasts until the statement ends; the wait for a session that
\* holds the same key can time out
lock_object_name(t) ==
  /\ pc = "trigger"
  /\ thd[t].pc = "lock"
  /\ IF \E l \in mdl_locks : l.key = MdlKey(t) /\ l.owner # t
     THEN /\ thd' = Return(t, TRUE)
          /\ UNCHANGED mdl_locks
     ELSE /\ mdl_locks' = mdl_locks \cup {[key |-> MdlKey(t), owner |-> t]}
          /\ thd' = [thd EXCEPT ![t].pc =
                       IF thd[t].cmd = "create" THEN "check_dml" ELSE "reset"]
  /\ UNCHANGED <<event_table, fieldVars, recVars, file, ret>>

\* check_dml_trigger_exist(spname): a .TRN file of that name exists or not
check_dml_trigger_exist(t) ==
  \E trn_exists \in BOOLEAN :
     /\ pc = "trigger"
     /\ thd[t].pc = "check_dml"
     /\ thd' = IF trn_exists THEN Return(t, TRUE)
               ELSE [thd EXCEPT ![t].pc = "reset"]
     /\ UNCHANGED <<mdl_locks, event_table, fieldVars, recVars, file, ret>>

\* saved_mode= thd->variables.sql_mode; thd->variables.sql_mode= 0;
reset_sql_mode(t) ==
  /\ pc = "trigger"
  /\ thd[t].pc = "reset"
  /\ thd' = [thd EXCEPT ![t].saved_mode = thd[t].sql_mode,
                        ![t].sql_mode = 0,
                        ![t].was_reset = TRUE,
                        ![t].pc = "open"]
  /\ UNCHANGED <<mdl_locks, event_table, fieldVars, recVars, file, ret>>

\* Event_db_repository::open_event_table(thd, TL_WRITE, &event_table)
\* fails: only mysql_create_sys_trigger puts the sql_mode back
open_event_table_fails(t) ==
  /\ pc = "trigger"
  /\ thd[t].pc = "open"
  /\ thd' = [Return(t, TRUE) EXCEPT ![t].sql_mode =
               IF thd[t].cmd = "create" THEN thd[t].saved_mode ELSE @]
  /\ UNCHANGED <<mdl_locks, event_table, fieldVars, recVars, file, ret>>

\* open_event_table succeeds, once no other session has the table open for
\* writing, and the Transaction_Resources_Guard is constructed
open_event_table(t) ==
  /\ pc = "trigger"
  /\ thd[t].pc = "open"
  /\ event_table.opened_by = 0
  /\ event_table' = [event_table EXCEPT !.opened_by = t]
  /\ thd' = [thd EXCEPT ![t].pc = "find"]
  /\ UNCHANGED <<mdl_locks, fieldVars, recVars, file, ret>>

\* ~Transaction_Resources_Guard(), then the return of r: the tables are
\* closed and the sql_mode is put back.  The locks taken since the
\* savepoint are released; the lock on the object name is older.
Transaction_Resources_Guard(t, r) ==
  [Return(t, r) EXCEPT ![t].sql_mode = thd[t].saved_mode]

\* find_sys_trigger_by_name(event_table, spname) and the returns that
\* depend on it alone
find_sys_trigger_by_name(t) ==
  /\ pc = "trigger"
  /\ thd[t].pc = "find"
  /\ IF (thd[t].spname \in event_table.rows) = (thd[t].cmd = "drop")
     THEN /\ thd' = [thd EXCEPT ![t].pc = "write"]
          /\ UNCHANGED event_table
     ELSE /\ thd' = Transaction_Resources_Guard(t,
                      thd[t].cmd = "create" /\ ~thd[t].if_not_exists)
          /\ event_table' = [event_table EXCEPT !.opened_by = 0]
  /\ UNCHANGED <<mdl_locks, fieldVars, recVars, file, ret>>

\* store_trigger_metadata(...), which ends with ha_write_row()
store_trigger_metadata(t) ==
  \E failed \in BOOLEAN :
     /\ pc = "trigger"
     /\ thd[t].pc = "write" /\ thd[t].cmd = "create"
     /\ event_table' = [rows |-> IF failed THEN event_table.rows
                                 ELSE event_table.rows \cup {thd[t].spname},
                        opened_by |-> 0]
     /\ thd' = Transaction_Resources_Guard(t, failed)
     /\ UNCHANGED <<mdl_locks, fieldVars, recVars, file, ret>>

\* event_table->file->ha_delete_row(event_table->record[0])
ha_delete_row(t) ==
  \E failed \in BOOLEAN :
     /\ pc = "trigger"
     /\ thd[t].pc = "write" /\ thd[t].cmd = "drop"
     /\ event_table' = [rows |-> IF failed THEN event_table.rows
                                 ELSE event_table.rows \ {thd[t].spname},
                        opened_by |-> 0]
     /\ thd' = Transaction_Resources_Guard(t, failed)
     /\ UNCHANGED <<mdl_locks, fieldVars, recVars, file, ret>>

\* the statement ends: the session's locks are released
EndOfStatement(t) ==
  /\ pc = "trigger"
  /\ thd[t].pc = "done"
  /\ mdl_locks' = {l \in mdl_locks : l.owner # t}
  /\ thd' = [thd EXCEPT ![t].pc = "idle"]
  /\ UNCHANGED <<event_table, fieldVars, recVars, file, ret>>

TrgNext ==
  \E t \in Threads :
     \/ Call(t)
     \/ lock_object_name(t)
     \/ check_dml_trigger_exist(t)
     \/ reset_sql_mode(t)
     \/ open_event_table_fails(t)
     \/ open_event_table(t)
     \/ find_sys_trigger_by_name(t)
     \/ store_trigger_metadata(t)
     \/ ha_delete_row(t)
     \/ EndOfStatement(t)

SpecTrg == TrgInit /\ [][TrgNext]_vars

\* C28: on every return after the sql_mode was set to 0, the function has
\* put the sql_mode back to what it was on entry, also when the event
\* table could not be opened.
C28_SqlModeIsRestored ==
  pc = "trigger" =>
    \A t \in Threads :
       (thd[t].pc = "done" /\ thd[t].was_reset) =>
          thd[t].sql_mode = thd[t].entry_mode

\* the session holds the lock on the object name of its statement
HoldsNameLock(t) ==
  [key |-> MdlKey(t), owner |-> t] \in mdl_locks

\* C29: while a session holds the object-name lock of a DROP TRIGGER, no
\* session that runs CREATE TRIGGER for the same (db, name) is past its own
\* object-name lock, searching or writing the event table, and the other
\* way round.
C29_CreateAndDropExcludeEachOther ==
  pc = "trigger" =>
    \A a \in Threads, b \in Threads :
       (/\ a # b
        /\ thd[a].cmd # thd[b].cmd
        /\ thd[a].cmd \in {"create", "drop"} /\ thd[b].cmd \in {"create", "drop"}
        /\ thd[a].spname = thd[b].spname
        /\ HoldsNameLock(a)) =>
          thd[b].pc \notin {"find", "write"}

====
